---- MODULE Spec2Model ----
(***************************************************************************)
(* State-machine model of the FastAPI cafe-menu admin backend:             *)
(* users / profiles / restaurants / dishes / reset tokens, the bearer      *)
(* tokens clients hold, and one action per HTTP handler of src/main.py's   *)
(* routers (auth, users, restaurants, emails, dishes).                     *)
(*                                                                         *)
(* Conventions                                                             *)
(*   - a table is a set of records, one record per row;                    *)
(*   - SQL NULL / Python None is Null for strings and NoId for integer     *)
(*     keys;                                                               *)
(*   - uuid4() values are drawn from the counter next_uuid, the reset      *)
(*     token strings of secrets.token_urlsafe(32) from next_token: both    *)
(*     are fresh on every draw;                                            *)
(*   - time is counted in hours;                                           *)
(*   - `last` records the most recent HTTP call and its outcome.           *)
(***************************************************************************)
EXTENDS Integers, FiniteSets, Sequences, TLC

(* ------------------------------ bounds -------------------------------- *)
MaxUuid == 2            \* users created after the seeded superuser
MaxDishId == 2          \* largest dish id handed out
MaxResetTokens == 2     \* reset tokens issued
MaxTime == 2            \* hours the clock may advance

(* ------------------------- program constants -------------------------- *)
AccessTokenTtl == 24    \* ACCESS_TOKEN_EXPIRE_MINUTES = 1440 minutes
ResetTokenTtl == 1      \* timedelta(hours=1)

Null == "NULL"       \* None / SQL NULL in a string column
Unset == "UNSET"     \* a field the request body does not carry
NoId == 0            \* None / SQL NULL in an integer key column
NullNum == 0 - 999   \* None / SQL NULL in a numeric column
UnsetNum == 0 - 998  \* a numeric field the request body does not carry

AdminEmail == "admin@x"
Emails == {AdminEmail, "a@x", "b@x"}
Passwords == {"pw1", "pw2"}
GeneratedPasswords == {"gen1"}
Roles == {"superuser", "restaurant"}
RoleInputs == Roles \cup {"waiter"}   \* what a UserCreate body may carry

VARIABLES
    users,              \* table users
    profiles,           \* table profiles
    restaurants,        \* table restaurants
    dishes,             \* table dishes
    categories,         \* table categories (ids)
    reset_tokens,       \* table reset_tokens
    folders,            \* restaurant ids that have a photo folder
    bearer,             \* access tokens issued so far (held by clients)
    now,                \* datetime.utcnow(), in hours
    next_uuid,          \* source of fresh uuid4 values
    next_restaurant_id, \* the restaurants.id sequence
    next_token,         \* source of fresh reset-token strings
    reg,                \* in-flight registration requests (interleaved runs)
    creating,           \* in-flight create_dish requests (interleaved runs)
    redeeming,          \* in-flight reset_password requests (interleaved runs)
    last                \* the last call: operation, actor, arguments, result

vars == <<users, profiles, restaurants, dishes, categories, reset_tokens,
          folders, bearer, now, next_uuid, next_restaurant_id, next_token,
          reg, creating, redeeming, last>>

store == <<users, profiles, restaurants, dishes, reset_tokens, folders>>

(* ------------------------- Credential service ------------------------- *)
get_password_hash(password) == <<"bcrypt", password>>

verify_password(plain_password, hashed_password) ==
    hashed_password = get_password_hash(plain_password)

\* create_access_token that writes the role claim of a restaurant whatever
\* role it is handed
create_access_token_as_restaurant(sub, role) ==
    [sub |-> sub, role |-> "restaurant", exp |-> now + AccessTokenTtl,
     sig |-> "ok"]

create_access_token(sub, role) ==
    [sub |-> sub, role |-> role, exp |-> now + AccessTokenTtl, sig |-> "ok"]

\* What a request can carry in its Authorization header.
NoCred == [sub |-> Null, role |-> Null, exp |-> 0, sig |-> "none"]
Forged == [sub |-> AdminEmail, role |-> "superuser", exp |-> AccessTokenTtl + MaxTime + 1, sig |-> "bad"]
\* A correctly signed token whose exp claim has passed: issued more than
\* ACCESS_TOKEN_EXPIRE_MINUTES ago.
Expired == [sub |-> AdminEmail, role |-> "superuser", exp |-> 0, sig |-> "ok"]
Creds == bearer \cup {NoCred, Forged, Expired}

\* jwt.decode(token, SECRET_KEY, algorithms=[ALGORITHM]) does not raise
jwt_decode_ok(token) == token.sig = "ok" /\ token.exp > now

UserByEmail(email) == {u \in users : u.email = email}
UserById(id) == {u \in users : u.id = id}
ProfileByEmail(email) ==
    {p \in profiles : \E u \in users : u.email = email /\ p.user_id = u.id}

NoUser == [id |-> NoId, email |-> Null, hashed_password |-> <<"bcrypt", Null>>,
           role |-> Null, approved |-> FALSE]

\* Depends(get_current_user): the user, or the error the dependency raises
get_current_user(cred) ==
    IF cred.sig = "none"
    THEN [err |-> "NotAuthenticated", user |-> NoUser]
    ELSE IF ~jwt_decode_ok(cred) \/ cred.sub = Null
    THEN [err |-> "InvalidAuthentication", user |-> NoUser]
    ELSE IF UserByEmail(cred.sub) = {}
    THEN [err |-> "InvalidCredentials", user |-> NoUser]
    ELSE [err |-> "None", user |-> CHOOSE u \in UserByEmail(cred.sub) : TRUE]

\* Authorization headers that are not "Bearer <token>": another scheme
\* ("Basic dXNlcjpwdw=="), and a value that str.split() does not cut into
\* exactly two words ("Bearer", "Bearer a b").
OtherScheme == [sub |-> Null, role |-> Null, exp |-> 0, sig |-> "basic"]
Unsplit == [sub |-> Null, role |-> Null, exp |-> 0, sig |-> "unsplit"]
Headers == Creds \cup {OtherScheme, Unsplit}

\* check_existing_token(request, db); scheme, credentials =
\* authorization.split() raises ValueError for a value of one word or of
\* three, and the except clause names jwt.PyJWTError only.
check_existing_token(header) ==
    IF header.sig = "none"
    THEN [err |-> "None", user |-> NoUser]
    ELSE IF header.sig = "unsplit"
    THEN [err |-> "InternalError", user |-> NoUser]
    ELSE IF header.sig = "basic"
    THEN [err |-> "None", user |-> NoUser]
    ELSE IF ~jwt_decode_ok(header) \/ header.sub = Null
    THEN [err |-> "InvalidAuthentication", user |-> NoUser]
    ELSE IF UserByEmail(header.sub) = {}
    THEN [err |-> "InvalidAuthentication", user |-> NoUser]
    ELSE [err |-> "None", user |-> CHOOSE u \in UserByEmail(header.sub) : TRUE]

Call(op, actor, email, id, res) ==
    [op |-> op, actor |-> actor, email |-> email, id |-> id, res |-> res]

\* The values a handler hands back: its outcome and the contents of every
\* table (and generator) after it, as committed.
Same(res) ==
    [res |-> res, users |-> users, profiles |-> profiles,
     restaurants |-> restaurants, dishes |-> dishes,
     reset_tokens |-> reset_tokens, folders |-> folders, bearer |-> bearer,
     next_uuid |-> next_uuid, next_restaurant_id |-> next_restaurant_id,
     next_token |-> next_token]

StoreOf(out) ==
    <<out.users, out.profiles, out.restaurants, out.dishes, out.reset_tokens,
      out.folders>>

\* One HTTP call: the handler's outcome becomes the state, and is recorded.
Apply(op, actor, email, id, out) ==
    /\ users' = out.users
    /\ profiles' = out.profiles
    /\ restaurants' = out.restaurants
    /\ dishes' = out.dishes
    /\ reset_tokens' = out.reset_tokens
    /\ folders' = out.folders
    /\ bearer' = out.bearer
    /\ next_uuid' = out.next_uuid
    /\ next_restaurant_id' = out.next_restaurant_id
    /\ next_token' = out.next_token
    /\ last' = Call(op, actor, email, id, out.res)
    /\ UNCHANGED <<categories, now, reg, creating, redeeming>>

(* ------------------- Aggregate lifecycle (crud.py) -------------------- *)
\* User(...) that leaves approved at the column default for every role
NewUserUnapproved(id, email, hashed_password, role) ==
    [id |-> id, email |-> email, hashed_password |-> hashed_password,
     role |-> role, approved |-> FALSE]

NewUser(id, email, hashed_password, role) ==
    [id |-> id, email |-> email, hashed_password |-> hashed_password,
     role |-> role, approved |-> (role = "superuser")]

\* UserProfile(...) written with the id of the restaurant still to be created
NewProfileLinked(user_id) ==
    [user_id |-> user_id, restaurant_id |-> next_restaurant_id,
     restaurant_name |-> Null, restaurant_reviews |-> Null,
     restaurant_photo |-> Null, telegram |-> Null, rating |-> NullNum,
     restaurant_currency |-> Null, tables_amount |-> 0]

NewProfile(user_id) ==
    [user_id |-> user_id, restaurant_id |-> NoId, restaurant_name |-> Null,
     restaurant_reviews |-> Null, restaurant_photo |-> Null, telegram |-> Null,
     rating |-> NullNum, restaurant_currency |-> Null, tables_amount |-> 0]

NewRestaurant(id) ==
    [id |-> id, name |-> "Default Restaurant Name", photo |-> Null,
     rating |-> 0, currency |-> "USD", tables_amount |-> 0]

\* crud_create_user_and_profile without its select-first test: the insert of
\* a second row with the email meets the unique index of users.email.
crud_create_unchecked(email, hashed_password, role) ==
    LET db_user == NewUser(next_uuid, email, hashed_password, role)
        db_restaurant == NewRestaurant(next_restaurant_id)
        db_profile == [NewProfile(db_user.id) EXCEPT
                           !.restaurant_id = db_restaurant.id]
    IN  IF UserByEmail(email) # {}
        THEN Same("IntegrityError")
        ELSE IF role = "restaurant"
        THEN [Same("Ok") EXCEPT
                !.users = users \cup {db_user},
                !.profiles = profiles \cup {db_profile},
                !.restaurants = restaurants \cup {db_restaurant},
                !.folders = folders \cup {db_restaurant.id},
                !.next_uuid = next_uuid + 1,
                !.next_restaurant_id = next_restaurant_id + 1]
        ELSE [Same("Ok") EXCEPT
                !.users = users \cup {db_user},
                !.next_uuid = next_uuid + 1]

\* crud_create_user_and_profile that returns before the profile is linked to
\* the restaurant and before os.makedirs.
crud_create_unlinked(email, hashed_password, role) ==
    LET db_user == NewUser(next_uuid, email, hashed_password, role)
        db_restaurant == NewRestaurant(next_restaurant_id)
    IN  IF UserByEmail(email) # {}
        THEN Same("DuplicateEmail")
        ELSE IF role = "restaurant"
        THEN [Same("Ok") EXCEPT
                !.users = users \cup {db_user},
                !.profiles = profiles \cup {NewProfile(db_user.id)},
                !.restaurants = restaurants \cup {db_restaurant},
                !.next_uuid = next_uuid + 1,
                !.next_restaurant_id = next_restaurant_id + 1]
        ELSE [Same("Ok") EXCEPT
                !.users = users \cup {db_user},
                !.next_uuid = next_uuid + 1]

\* crud_create_user_and_profile, run without interruption
crud_create_user_and_profile(email, hashed_password, role) ==
    IF UserByEmail(email) # {}
    THEN Same("DuplicateEmail")
    ELSE LET db_user == NewUser(next_uuid, email, hashed_password, role)
             db_restaurant == NewRestaurant(next_restaurant_id)
             db_profile == [NewProfile(db_user.id) EXCEPT
                                !.restaurant_id = db_restaurant.id]
         IN  IF role = "restaurant"
             THEN [Same("Ok") EXCEPT
                     !.users = users \cup {db_user},
                     !.profiles = profiles \cup {db_profile},
                     !.restaurants = restaurants \cup {db_restaurant},
                     !.folders = folders \cup {db_restaurant.id},
                     !.next_uuid = next_uuid + 1,
                     !.next_restaurant_id = next_restaurant_id + 1]
             ELSE [Same("Ok") EXCEPT
                     !.users = users \cup {db_user},
                     !.next_uuid = next_uuid + 1]

\* crud_delete_user_and_profile.  The storage engine applies the ON DELETE
\* CASCADE foreign keys (dishes.restaurant_id, profiles.restaurant_id,
\* profiles.user_id) and refuses to delete a user row that a reset_tokens
\* row still references (reset_tokens.user_id has no ON DELETE rule): the
\* statement raises, nothing is committed, and the folder that shutil.rmtree
\* removed stays removed.
crud_delete_user_and_profile(email) ==
    IF UserByEmail(email) = {}
    THEN Same("NotFound")
    ELSE LET db_user == CHOOSE u \in UserByEmail(email) : TRUE
             linked == {p.restaurant_id :
                          p \in {q \in profiles : q.user_id = db_user.id
                                                  /\ q.restaurant_id # NoId}}
             restaurants1 == {r \in restaurants : r.id \notin linked}
             dishes1 == {d \in dishes : d.restaurant_id \notin linked}
             profiles1 == {p \in profiles : p.restaurant_id \notin linked}
             folders1 == folders \ linked
         IN  IF \E t \in reset_tokens : t.user_id = db_user.id
             THEN [Same("IntegrityError") EXCEPT !.folders = folders1]
             ELSE [Same("Ok") EXCEPT
                     !.users = users \ {db_user},
                     !.profiles = {p \in profiles1 : p.user_id # db_user.id},
                     !.restaurants = restaurants1,
                     !.dishes = dishes1,
                     !.folders = folders1]

(* ----------------------------- auth.py -------------------------------- *)
\* POST /api/auth/login
login(header, email, password) ==
    LET current == check_existing_token(header)
        found == UserByEmail(email)
        user == CHOOSE u \in found : TRUE
    IN  IF current.err # "None" THEN Same(current.err)
        ELSE IF current.user # NoUser THEN Same("AlreadyAuthenticated")
        ELSE IF found = {} THEN Same("InvalidCredentials")
        ELSE IF ~verify_password(password, user.hashed_password)
             THEN Same("InvalidCredentials")
        ELSE IF user.role \notin Roles THEN Same("Forbidden")
        ELSE [Same("Ok") EXCEPT
                !.bearer = bearer \cup {create_access_token(user.email, user.role)}]

\* POST /api/auth/register
register_user(header, email, password) ==
    LET current == check_existing_token(header)
    IN  IF current.err # "None" THEN Same(current.err)
        ELSE IF current.user # NoUser THEN Same("AlreadyAuthenticated")
        ELSE crud_create_user_and_profile(email, get_password_hash(password),
                                          "restaurant")

(* ----------------------------- users.py ------------------------------- *)
\* GET /api/users/get_all_users
all_users(cred) ==
    LET cur == get_current_user(cred)
    IN  IF cur.err # "None" THEN Same(cur.err)
        ELSE IF cur.user.role # "superuser" THEN Same("Forbidden")
        ELSE Same("Ok")

\* GET /api/users/get_all_superusers
all_superusers(cred) ==
    LET cur == get_current_user(cred)
    IN  IF cur.err # "None" THEN Same(cur.err)
        ELSE IF cur.user.role # "superuser" THEN Same("Forbidden")
        ELSE Same("Ok")

\* approve that flips the flag instead of setting it
approve_toggles(cred, email) ==
    LET cur == get_current_user(cred)
        found == UserByEmail(email)
        user == CHOOSE u \in found : TRUE
    IN  IF cur.err # "None" THEN Same(cur.err)
        ELSE IF cur.user.role # "superuser" THEN Same("Forbidden")
        ELSE IF found = {} THEN Same("NotFound")
        ELSE [Same("Ok") EXCEPT
                !.users = (users \ {user}) \cup
                          {[user EXCEPT !.approved = ~user.approved]}]

\* POST /api/users/approve_user
approve(cred, email) ==
    LET cur == get_current_user(cred)
        found == UserByEmail(email)
        user == CHOOSE u \in found : TRUE
    IN  IF cur.err # "None" THEN Same(cur.err)
        ELSE IF cur.user.role # "superuser" THEN Same("Forbidden")
        ELSE IF found = {} THEN Same("NotFound")
        ELSE [Same("Ok") EXCEPT
                !.users = (users \ {user}) \cup {[user EXCEPT !.approved = TRUE]}]

\* POST /api/users/create_new_user ; UserCreate.validate_role refuses the
\* body before the handler runs
create_user(cred, email, password, role) ==
    LET cur == get_current_user(cred)
    IN  IF cur.err # "None" THEN Same(cur.err)
        ELSE IF role \notin Roles THEN Same("ValidationError")
        ELSE IF cur.user.role # "superuser" THEN Same("Forbidden")
        ELSE crud_create_user_and_profile(email, get_password_hash(password), role)

\* DELETE /api/users/delete_user_by_email/
delete_user(cred, email) ==
    LET cur == get_current_user(cred)
    IN  IF cur.err # "None" THEN Same(cur.err)
        ELSE IF cur.user.role # "superuser" THEN Same("Forbidden")
        ELSE crud_delete_user_and_profile(email)

(* -------------------------- restaurants.py ---------------------------- *)
\* GET /api/restaurants/get_all_restaurants
all_restaurants(cred) ==
    LET cur == get_current_user(cred)
    IN  IF cur.err # "None" THEN Same(cur.err)
        ELSE IF cur.user.role # "superuser" THEN Same("Forbidden")
        ELSE Same("Ok")

\* get_profile_by_email without the comparison of emails
get_profile_of_anyone(cred, email) ==
    LET cur == get_current_user(cred)
    IN  IF cur.err # "None" THEN Same(cur.err) ELSE Same("Ok")

\* GET /api/restaurants/get_restaurant
get_profile_by_email(cred, email) ==
    LET cur == get_current_user(cred)
    IN  IF cur.err # "None" THEN Same(cur.err)
        ELSE IF cur.user.role = "superuser" \/ cur.user.email = email
             THEN Same("Ok")
        ELSE Same("Forbidden")

\* The hundredths k for which Python's round(k / 100, 1) goes up although
\* k / 100 is written as a tie: the nearest double lies above the tie (and
\* the nearest double of -k / 100 below it).
RatingTiesUp ==
    {5, 45, 55, 65, 75, 105, 135, 155, 175, 185, 235, 245, 275, 285, 295,
     335, 345, 375, 385, 395, 415, 445, 465, 475, 495, 515, 545, 565, 575,
     595, 615, 645, 665, 675, 695, 715, 745, 765, 775, 795, 805, 815, 855,
     865, 875, 905, 915, 955, 965, 975}

\* UserProfileUpdate.validate_rating: round(rating, 1) of the JSON number,
\* from hundredths to tenths.
validate_rating(rating) ==
    IF rating \in {UnsetNum, NullNum} THEN rating
    ELSE LET q == rating \div 10
             r == rating % 10
         IN  IF r < 5 THEN q
             ELSE IF r > 5 THEN q + 1
             ELSE IF rating >= 0
                  THEN IF rating \in RatingTiesUp THEN q + 1 ELSE q
             ELSE IF (0 - rating) \in RatingTiesUp THEN q ELSE q + 1

\* setattr(profile, key, value) for a key of profile_update
SetAttr(old, value) == IF value = Unset THEN old ELSE value
SetAttrNum(old, value) == IF value = UnsetNum THEN old ELSE value

\* if profile_update.get(key) is not None: restaurant.<column> = value
SetIfNotNone(old, value) == IF value \in {Unset, Null} THEN old ELSE value
SetIfNotNoneNum(old, value) ==
    IF value \in {UnsetNum, NullNum} THEN old ELSE value

\* crud_update_user_profile_by_email; profile_update carries the rounded
\* rating.  tables_amount is NOT NULL in profiles: writing None to it makes
\* the commit raise, and nothing is stored.
crud_update_user_profile_by_email(email, profile_update) ==
    IF ProfileByEmail(email) = {}
    THEN Same("NotFound")
    ELSE LET profile == CHOOSE p \in ProfileByEmail(email) : TRUE
             profile1 ==
                 [profile EXCEPT
                    !.restaurant_name = SetAttr(@, profile_update.restaurant_name),
                    !.restaurant_reviews = SetAttr(@, profile_update.restaurant_reviews),
                    !.restaurant_photo = SetAttr(@, profile_update.restaurant_photo),
                    !.telegram = SetAttr(@, profile_update.telegram),
                    !.rating = SetAttrNum(@, profile_update.rating),
                    !.restaurant_currency = SetAttr(@, profile_update.restaurant_currency),
                    !.tables_amount = SetAttrNum(@, profile_update.tables_amount)]
             found == {r \in restaurants : r.id = profile.restaurant_id}
             restaurant == CHOOSE r \in found : TRUE
             restaurant1 ==
                 [restaurant EXCEPT
                    !.name = SetIfNotNone(@, profile_update.restaurant_name),
                    !.photo = SetIfNotNone(@, profile_update.restaurant_photo),
                    !.rating = SetIfNotNoneNum(@, profile_update.rating),
                    !.currency = SetIfNotNone(@, profile_update.restaurant_currency),
                    !.tables_amount = SetIfNotNoneNum(@, profile_update.tables_amount)]
         IN  IF profile1.tables_amount = NullNum
             THEN Same("IntegrityError")
             ELSE [Same("Ok") EXCEPT
                     !.profiles = (profiles \ {profile}) \cup {profile1},
                     !.restaurants =
                         IF profile.restaurant_id # NoId /\ found # {}
                         THEN (restaurants \ {restaurant}) \cup {restaurant1}
                         ELSE restaurants]

\* PATCH /api/restaurants/update_restaurant
update_profile_by_email(cred, email, body) ==
    LET cur == get_current_user(cred)
        profile_data == [body EXCEPT !.rating = validate_rating(@)]
    IN  IF cur.err # "None" THEN Same(cur.err)
        ELSE IF ~(cur.user.role = "superuser" \/ cur.user.email = email)
             THEN Same("Forbidden")
        ELSE IF profile_data.rating = NullNum
             THEN Same("InternalError")      \* Decimal(None): TypeError
        ELSE IF /\ profile_data.rating # UnsetNum
                /\ (profile_data.rating < 0 \/ profile_data.rating > 99)
             THEN Same("InvalidArgument")
        ELSE crud_update_user_profile_by_email(email, profile_data)

(* ----------------------------- emails.py ------------------------------ *)
\* POST /api/emails/request-reset/ ; mail_ok: the SMTP delivery succeeds
request_password_reset(email, mail_ok) ==
    LET found == UserByEmail(email)
        user == CHOOSE u \in found : TRUE
        reset_token == [token |-> next_token, user_id |-> user.id,
                        expiry_time |-> now + ResetTokenTtl]
    IN  IF found = {} THEN Same("NotFound")
        ELSE [Same(IF mail_ok THEN "Ok" ELSE "UpstreamDeliveryFailure") EXCEPT
                !.reset_tokens = reset_tokens \cup {reset_token},
                !.next_token = next_token + 1]

\* reset_password that leaves the redeemed token row in place
reset_password_keeps_token(token, new_password, mail_ok) ==
    LET found == {t \in reset_tokens : t.token = token}
        reset_token == CHOOSE t \in found : TRUE
        owner == UserById(reset_token.user_id)
        user == CHOOSE u \in owner : TRUE
    IN  IF found = {} THEN Same("InvalidToken")
        ELSE IF reset_token.expiry_time < now
             THEN [Same("TokenExpired") EXCEPT
                     !.reset_tokens = reset_tokens \ {reset_token}]
        ELSE IF owner = {} THEN Same("NotFound")
        ELSE [Same(IF mail_ok THEN "Ok" ELSE "UpstreamDeliveryFailure") EXCEPT
                !.users = (users \ {user}) \cup
                          {[user EXCEPT !.hashed_password =
                                            get_password_hash(new_password)]}]

\* reset_password that takes a token for expired at its expiry time already
reset_password_expires_early(token, new_password, mail_ok) ==
    LET found == {t \in reset_tokens : t.token = token}
        reset_token == CHOOSE t \in found : TRUE
        owner == UserById(reset_token.user_id)
        user == CHOOSE u \in owner : TRUE
    IN  IF found = {} THEN Same("InvalidToken")
        ELSE IF reset_token.expiry_time <= now
             THEN [Same("TokenExpired") EXCEPT
                     !.reset_tokens = reset_tokens \ {reset_token}]
        ELSE IF owner = {} THEN Same("NotFound")
        ELSE [Same(IF mail_ok THEN "Ok" ELSE "UpstreamDeliveryFailure") EXCEPT
                !.users = (users \ {user}) \cup
                          {[user EXCEPT !.hashed_password =
                                            get_password_hash(new_password)]},
                !.reset_tokens = reset_tokens \ {reset_token}]

\* reset_password that, on success, removes every token of the user
reset_password_clears_user_tokens(token, new_password, mail_ok) ==
    LET found == {t \in reset_tokens : t.token = token}
        reset_token == CHOOSE t \in found : TRUE
        owner == UserById(reset_token.user_id)
        user == CHOOSE u \in owner : TRUE
    IN  IF found = {} THEN Same("InvalidToken")
        ELSE IF reset_token.expiry_time < now
             THEN [Same("TokenExpired") EXCEPT
                     !.reset_tokens = reset_tokens \ {reset_token}]
        ELSE IF owner = {} THEN Same("NotFound")
        ELSE [Same(IF mail_ok THEN "Ok" ELSE "UpstreamDeliveryFailure") EXCEPT
                !.users = (users \ {user}) \cup
                          {[user EXCEPT !.hashed_password =
                                            get_password_hash(new_password)]},
                !.reset_tokens =
                    {t \in reset_tokens : t.user_id # reset_token.user_id}]

\* GET /api/emails/reset-password/ ; new_password: the 12 random characters
reset_password(token, new_password, mail_ok) ==
    LET found == {t \in reset_tokens : t.token = token}
        reset_token == CHOOSE t \in found : TRUE
        owner == UserById(reset_token.user_id)
        user == CHOOSE u \in owner : TRUE
    IN  IF found = {} THEN Same("InvalidToken")
        ELSE IF reset_token.expiry_time < now
             THEN [Same("TokenExpired") EXCEPT
                     !.reset_tokens = reset_tokens \ {reset_token}]
        ELSE IF owner = {} THEN Same("NotFound")
        ELSE [Same(IF mail_ok THEN "Ok" ELSE "UpstreamDeliveryFailure") EXCEPT
                !.users = (users \ {user}) \cup
                          {[user EXCEPT !.hashed_password =
                                            get_password_hash(new_password)]},
                !.reset_tokens = reset_tokens \ {reset_token}]

\* request.old_password: ChangePasswordRequest declares email and
\* new_password only (extra body keys are dropped), so the attribute read
\* raises AttributeError whatever the body carried.
AttributeError == "AttributeError"
old_password_of(request_fields) ==
    IF "old_password" \in request_fields THEN "pw1" ELSE AttributeError
ChangePasswordRequest == {"email", "new_password"}

\* POST /api/emails/change_password
change_password(cred, email, new_password) ==
    LET cur == get_current_user(cred)
        found == UserByEmail(email)
        user == CHOOSE u \in found : TRUE
    IN  IF cur.err # "None" THEN Same(cur.err)
        ELSE IF cur.user.email # email /\ cur.user.role # "superuser"
             THEN Same("Forbidden")
        ELSE IF found = {} THEN Same("NotFound")
        ELSE IF old_password_of(ChangePasswordRequest) = AttributeError
             THEN Same("InternalError")
        ELSE IF ~verify_password(old_password_of(ChangePasswordRequest),
                                 user.hashed_password)
             THEN Same("IncorrectOldPassword")
        ELSE [Same("Ok") EXCEPT
                !.users = (users \ {user}) \cup
                          {[user EXCEPT !.hashed_password =
                                            get_password_hash(new_password)]}]

(* ------------------------- dishes (crud.py) --------------------------- *)
\* Decimal(str(price)).quantize(Decimal('0.01')): from 1/10000 units to
\* cents, rounding half to even (the decimal context's default).
quantize(price) ==
    LET q == price \div 100
        r == price % 100
    IN  IF r < 50 THEN q
        ELSE IF r > 50 THEN q + 1
        ELSE IF q % 2 = 0 THEN q ELSE q + 1

\* crud_get_next_dish_id
crud_get_next_dish_id ==
    IF dishes = {} THEN 1
    ELSE (CHOOSE d \in dishes : \A e \in dishes : e.id <= d.id).id + 1

\* crud_get_email_for_dish
crud_get_email_for_dish(dish_id) ==
    LET emails == {u.email : u \in {v \in users :
                      \E p \in profiles, r \in restaurants, d \in dishes :
                          /\ v.id = p.user_id
                          /\ p.restaurant_id = r.id
                          /\ r.id = d.restaurant_id
                          /\ d.id = dish_id}}
    IN  IF emails = {} THEN Null ELSE CHOOSE e \in emails : TRUE

\* crud_create_dish
crud_create_dish(restaurant_id, category_id, name, description, price, photo, extra) ==
    IF ~\E r \in restaurants : r.id = restaurant_id THEN Same("NotFound")
    ELSE IF category_id \notin categories THEN Same("NotFound")
    ELSE [Same("Ok") EXCEPT
            !.dishes = dishes \cup
                {[id |-> crud_get_next_dish_id,
                  restaurant_id |-> restaurant_id,
                  category_id |-> category_id,
                  name |-> name,
                  photo |-> photo,
                  description |-> description,
                  price |-> quantize(price),
                  extra |-> extra]}]

\* crud_update_dish that applies restaurant_id whatever the actor's role
crud_update_dish_any_role(dish_id, current_user, restaurant_id, name, description, price, photo, extra) ==
    LET found == {d \in dishes : d.id = dish_id}
        dish == CHOOSE d \in found : TRUE
        dish1 == [dish EXCEPT
                    !.name = IF name # Null THEN name ELSE @,
                    !.description = IF description # Null THEN description ELSE @,
                    !.price = IF price # NullNum THEN quantize(price) ELSE @,
                    !.photo = IF photo # Null THEN photo ELSE @,
                    !.extra = IF extra # Null THEN extra ELSE @,
                    !.restaurant_id =
                        IF restaurant_id # NoId THEN restaurant_id ELSE @]
    IN  IF found = {} THEN Same("NotFound")
        ELSE IF ~\E r \in restaurants : r.id = dish1.restaurant_id
             THEN Same("IntegrityError")
        ELSE [Same("Ok") EXCEPT !.dishes = (dishes \ {dish}) \cup {dish1}]

\* crud_update_dish on a dishes table whose restaurant_id is no foreign key
crud_update_dish_no_foreign_key(dish_id, current_user, restaurant_id, name, description, price, photo, extra) ==
    LET found == {d \in dishes : d.id = dish_id}
        dish == CHOOSE d \in found : TRUE
        dish1 == [dish EXCEPT
                    !.name = IF name # Null THEN name ELSE @,
                    !.description = IF description # Null THEN description ELSE @,
                    !.price = IF price # NullNum THEN quantize(price) ELSE @,
                    !.photo = IF photo # Null THEN photo ELSE @,
                    !.extra = IF extra # Null THEN extra ELSE @,
                    !.restaurant_id =
                        IF restaurant_id # NoId /\ current_user.role = "superuser"
                        THEN restaurant_id ELSE @]
    IN  IF found = {} THEN Same("NotFound")
        ELSE [Same("Ok") EXCEPT !.dishes = (dishes \ {dish}) \cup {dish1}]

\* crud_update_dish.  dishes.restaurant_id is a foreign key: a commit that
\* points it at no restaurant row raises, and nothing is stored.
crud_update_dish(dish_id, current_user, restaurant_id, name, description, price, photo, extra) ==
    LET found == {d \in dishes : d.id = dish_id}
        dish == CHOOSE d \in found : TRUE
        dish1 == [dish EXCEPT
                    !.name = IF name # Null THEN name ELSE @,
                    !.description = IF description # Null THEN description ELSE @,
                    !.price = IF price # NullNum THEN quantize(price) ELSE @,
                    !.photo = IF photo # Null THEN photo ELSE @,
                    !.extra = IF extra # Null THEN extra ELSE @,
                    !.restaurant_id =
                        IF restaurant_id # NoId /\ current_user.role = "superuser"
                        THEN restaurant_id ELSE @]
    IN  IF found = {} THEN Same("NotFound")
        ELSE IF ~\E r \in restaurants : r.id = dish1.restaurant_id
             THEN Same("IntegrityError")
        ELSE [Same("Ok") EXCEPT !.dishes = (dishes \ {dish}) \cup {dish1}]

\* crud_delete_dish
crud_delete_dish(dish_id) ==
    LET found == {d \in dishes : d.id = dish_id}
    IN  IF found = {} THEN Same("NotFound")
        ELSE [Same("Ok") EXCEPT !.dishes = dishes \ found]

(* ----------------------------- dishes.py ------------------------------ *)
\* condecimal(max_digits=10, decimal_places=2) accepts the price
price_schema_ok(price) == price = NullNum \/ (price >= 0 /\ price % 100 = 0)

\* POST /api/dishes/dish_by_id/
get_dish_by_id(cred, dish_id) ==
    LET cur == get_current_user(cred)
        email == crud_get_email_for_dish(dish_id)
    IN  IF cur.err # "None" THEN Same(cur.err)
        ELSE IF ~\E d \in dishes : d.id = dish_id THEN Same("NotFound")
        ELSE IF cur.user.role = "superuser" \/ cur.user.email = email
             THEN Same("Ok")
        ELSE Same("Forbidden")

\* create_new_dish that hands the body's restaurant_id to crud_create_dish
\* for every actor
create_new_dish_as_requested(cred, dish) ==
    LET cur == get_current_user(cred)
    IN  IF cur.err # "None" THEN Same(cur.err)
        ELSE IF ~price_schema_ok(dish.price) THEN Same("ValidationError")
        ELSE IF ~(cur.user.role = "superuser" \/ cur.user.email = dish.email)
             THEN Same("Forbidden")
        ELSE crud_create_dish(dish.restaurant_id, dish.category_id,
                              dish.name, dish.description, dish.price,
                              dish.photo, dish.extra)

\* POST /api/dishes/create/
create_new_dish(cred, dish) ==
    LET cur == get_current_user(cred)
        profile == ProfileByEmail(cur.user.email)
        own == CHOOSE p \in profile : TRUE
    IN  IF cur.err # "None" THEN Same(cur.err)
        ELSE IF ~price_schema_ok(dish.price) THEN Same("ValidationError")
        ELSE IF ~(cur.user.role = "superuser" \/ cur.user.email = dish.email)
             THEN Same("Forbidden")
        ELSE IF cur.user.role = "superuser"
             THEN crud_create_dish(dish.restaurant_id, dish.category_id,
                                   dish.name, dish.description, dish.price,
                                   dish.photo, dish.extra)
        ELSE IF profile = {} \/ own.restaurant_id = NoId THEN Same("NotFound")
        ELSE crud_create_dish(own.restaurant_id, dish.category_id, dish.name,
                              dish.description, dish.price, dish.photo,
                              dish.extra)

\* PATCH /api/dishes/update/
update_dish_route(cred, dish) ==
    LET cur == get_current_user(cred)
    IN  IF cur.err # "None" THEN Same(cur.err)
        ELSE IF ~price_schema_ok(dish.price) THEN Same("ValidationError")
        ELSE IF cur.user.role = "superuser" \/ cur.user.email = dish.email
             THEN crud_update_dish(dish.dish_id, cur.user, dish.restaurant_id,
                                   dish.name, dish.description, dish.price,
                                   dish.photo, dish.extra)
        ELSE Same("Forbidden")

\* delete_dish that deletes the row before it compares the emails
delete_dish_then_check(cred, dish) ==
    LET cur == get_current_user(cred)
    IN  IF cur.err # "None" THEN Same(cur.err)
        ELSE IF cur.user.role = "superuser" \/ cur.user.email = dish.email
             THEN crud_delete_dish(dish.dish_id)
        ELSE [crud_delete_dish(dish.dish_id) EXCEPT !.res = "Forbidden"]

\* DELETE /api/dishes/delete/
delete_dish(cred, dish) ==
    LET cur == get_current_user(cred)
    IN  IF cur.err # "None" THEN Same(cur.err)
        ELSE IF cur.user.role = "superuser" \/ cur.user.email = dish.email
             THEN crud_delete_dish(dish.dish_id)
        ELSE Same("Forbidden")

\* POST /api/dishes/dishes_by_email/
get_dishes_by_email(cred, email) ==
    LET cur == get_current_user(cred)
        profile == ProfileByEmail(email)
        own == CHOOSE p \in profile : TRUE
    IN  IF cur.err # "None" THEN Same(cur.err)
        ELSE IF ~(cur.user.role = "superuser" \/ cur.user.email = email)
             THEN Same("Forbidden")
        ELSE IF profile = {} THEN Same("NotFound")
        ELSE IF ~\E r \in restaurants : r.id = own.restaurant_id
             THEN Same("NotFound")
        ELSE Same("Ok")

\* get_dishes_by_email: select(Dish).where(Dish.restaurant_id ==
\* restaurant.id), the rows of a successful answer
dishes_listed(email) ==
    {d \in dishes : \E p \in ProfileByEmail(email) :
                        d.restaurant_id = p.restaurant_id}

(* ------------------------- request bodies ----------------------------- *)
NoPatch ==
    [restaurant_name |-> Unset, restaurant_reviews |-> Unset,
     restaurant_photo |-> Unset, telegram |-> Unset, rating |-> UnsetNum,
     restaurant_currency |-> Unset, tables_amount |-> UnsetNum]

\* UserProfileUpdate bodies
ProfilePatches ==
    {[NoPatch EXCEPT !.restaurant_name = "Cafe", !.rating = 450],
     [NoPatch EXCEPT !.rating = 1000]}

\* DishCreate bodies; prices in 1/10000
DishCreates ==
    [email : Emails \ {AdminEmail}, restaurant_id : {1, 2}, category_id : {1},
     name : {"soup"}, description : {"d"}, price : {12500}, photo : {Null},
     extra : {Null}]

\* DishUpdate bodies
DishUpdates ==
    [email : Emails \ {AdminEmail}, dish_id : 1 .. MaxDishId,
     restaurant_id : {NoId, 2}, name : {"stew"}, description : {Null},
     price : {NullNum}, photo : {Null}, extra : {Null}]

\* DishDelete bodies
DishDeletes == [email : Emails \ {AdminEmail}, dish_id : 1 .. MaxDishId]

(* ------------------------------ actions ------------------------------- *)
ActorOf(cred) == get_current_user(cred).user.email

Login(header, email, password) ==
    Apply("login", check_existing_token(header).user.email, email, NoId,
          login(header, email, password))

Register(header, email, password) ==
    /\ next_uuid <= MaxUuid
    /\ Apply("register", check_existing_token(header).user.email, email, NoId,
             register_user(header, email, password))

AllUsers(cred) ==
    Apply("all_users", ActorOf(cred), Null, NoId, all_users(cred))

AllSuperusers(cred) ==
    Apply("all_superusers", ActorOf(cred), Null, NoId, all_superusers(cred))

Approve(cred, email) ==
    Apply("approve", ActorOf(cred), email, NoId, approve(cred, email))

CreateUser(cred, email, password, role) ==
    /\ next_uuid <= MaxUuid
    /\ Apply("create_user", ActorOf(cred), email, NoId,
             create_user(cred, email, password, role))

DeleteUser(cred, email) ==
    Apply("delete_user", ActorOf(cred), email, NoId, delete_user(cred, email))

AllRestaurants(cred) ==
    Apply("all_restaurants", ActorOf(cred), Null, NoId, all_restaurants(cred))

GetProfile(cred, email) ==
    Apply("get_profile", ActorOf(cred), email, NoId,
          get_profile_by_email(cred, email))

UpdateProfile(cred, email, body) ==
    Apply("update_profile", ActorOf(cred), email, NoId,
          update_profile_by_email(cred, email, body))

RequestReset(email, mail_ok) ==
    /\ next_token <= MaxResetTokens
    /\ Apply("request_reset", Null, email, next_token,
             request_password_reset(email, mail_ok))

RedeemReset(token, new_password, mail_ok) ==
    Apply("reset_password", Null, Null, token,
          reset_password(token, new_password, mail_ok))

ChangePassword(cred, email, new_password) ==
    Apply("change_password", ActorOf(cred), email, NoId,
          change_password(cred, email, new_password))

GetDish(cred, dish_id) ==
    Apply("get_dish", ActorOf(cred), Null, dish_id, get_dish_by_id(cred, dish_id))

CreateDish(cred, dish) ==
    /\ crud_get_next_dish_id <= MaxDishId
    /\ Apply("create_dish", ActorOf(cred), dish.email, crud_get_next_dish_id,
             create_new_dish(cred, dish))

UpdateDish(cred, dish) ==
    Apply("update_dish", ActorOf(cred), dish.email, dish.dish_id,
          update_dish_route(cred, dish))

DeleteDish(cred, dish) ==
    Apply("delete_dish", ActorOf(cred), dish.email, dish.dish_id,
          delete_dish(cred, dish))

ListDishes(cred, email) ==
    Apply("list_dishes", ActorOf(cred), email, NoId,
          get_dishes_by_email(cred, email))

\* An hour passes.
Tick ==
    /\ now < MaxTime
    /\ now' = now + 1
    /\ last' = Call("tick", Null, Null, NoId, "None")
    /\ UNCHANGED <<users, profiles, restaurants, dishes, categories,
                   reset_tokens, folders, bearer, next_uuid,
                   next_restaurant_id, next_token, reg, creating, redeeming>>

(* ------------- registration, one storage commit at a time ------------ *)
\* Requests that run crud_create_user_and_profile concurrently.
ReqIds == {"r1", "r2"}

IdleRequest ==
    [pc |-> "idle", email |-> Null, checked |-> FALSE, user_id |-> NoId,
     restaurant_id |-> NoId, res |-> "None"]

RegUnchanged ==
    UNCHANGED <<dishes, categories, reset_tokens, bearer, now, next_token,
                creating, redeeming>>

\* POST /api/auth/register arrives with no Authorization header
RegBegin(r, email) ==
    /\ reg[r].pc = "idle"
    /\ reg' = [reg EXCEPT ![r] = [IdleRequest EXCEPT !.pc = "check",
                                                     !.email = email]]
    /\ UNCHANGED <<users, profiles, restaurants, folders, next_uuid,
                   next_restaurant_id, last>>
    /\ RegUnchanged

\* select(User).filter(User.email == email): raise 400 if a row is found
RegCheck(r) ==
    /\ reg[r].pc = "check"
    /\ IF UserByEmail(reg[r].email) # {}
       THEN /\ reg' = [reg EXCEPT ![r].pc = "done", ![r].res = "DuplicateEmail"]
            /\ last' = Call("register", Null, reg[r].email, NoId, "DuplicateEmail")
       ELSE /\ reg' = [reg EXCEPT ![r].pc = "add_user", ![r].checked = TRUE]
            /\ last' = last
    /\ UNCHANGED <<users, profiles, restaurants, folders, next_uuid,
                   next_restaurant_id>>
    /\ RegUnchanged

\* db.add(db_user); await db.commit(): users.email is unique, and the commit
\* of a second row with the email raises IntegrityError, which nothing catches.
RegAddUser(r) ==
    /\ reg[r].pc = "add_user"
    /\ next_uuid <= MaxUuid
    /\ IF UserByEmail(reg[r].email) # {}
       THEN /\ reg' = [reg EXCEPT ![r].pc = "done", ![r].res = "IntegrityError"]
            /\ last' = Call("register", Null, reg[r].email, NoId, "IntegrityError")
            /\ UNCHANGED <<users, next_uuid>>
       ELSE /\ users' = users \cup
                  {NewUser(next_uuid, reg[r].email, get_password_hash("pw1"),
                           "restaurant")}
            /\ next_uuid' = next_uuid + 1
            /\ reg' = [reg EXCEPT ![r].pc = "add_profile",
                                  ![r].user_id = next_uuid]
            /\ last' = last
    /\ UNCHANGED <<profiles, restaurants, folders, next_restaurant_id>>
    /\ RegUnchanged

\* db.add(db_profile); await db.commit()
RegAddProfile(r) ==
    /\ reg[r].pc = "add_profile"
    /\ profiles' = profiles \cup {NewProfile(reg[r].user_id)}
    /\ reg' = [reg EXCEPT ![r].pc = "add_restaurant"]
    /\ UNCHANGED <<users, restaurants, folders, next_uuid, next_restaurant_id,
                   last>>
    /\ RegUnchanged

\* db.add(db_restaurant); await db.commit()
RegAddRestaurant(r) ==
    /\ reg[r].pc = "add_restaurant"
    /\ restaurants' = restaurants \cup {NewRestaurant(next_restaurant_id)}
    /\ next_restaurant_id' = next_restaurant_id + 1
    /\ reg' = [reg EXCEPT ![r].pc = "link",
                          ![r].restaurant_id = next_restaurant_id]
    /\ UNCHANGED <<users, profiles, folders, next_uuid, last>>
    /\ RegUnchanged

\* db_profile.restaurant_id = db_restaurant.id; await db.commit()
RegLink(r) ==
    /\ reg[r].pc = "link"
    /\ profiles' = {IF p.user_id = reg[r].user_id
                    THEN [p EXCEPT !.restaurant_id = reg[r].restaurant_id]
                    ELSE p : p \in profiles}
    /\ reg' = [reg EXCEPT ![r].pc = "mkdir"]
    /\ UNCHANGED <<users, restaurants, folders, next_uuid, next_restaurant_id,
                   last>>
    /\ RegUnchanged

\* os.makedirs(restaurant_folder); return db_user
RegMkdir(r) ==
    /\ reg[r].pc = "mkdir"
    /\ folders' = folders \cup {reg[r].restaurant_id}
    /\ reg' = [reg EXCEPT ![r].pc = "done", ![r].res = "Ok"]
    /\ last' = Call("register", Null, reg[r].email, NoId, "Ok")
    /\ UNCHANGED <<users, profiles, restaurants, next_uuid, next_restaurant_id>>
    /\ RegUnchanged

\* The request dies at one of its awaits (the storage engine or the server
\* process fails): what it has committed stays, nothing more is written.
RegCrash(r) ==
    /\ reg[r].pc \in {"check", "add_user", "add_profile", "add_restaurant",
                      "link", "mkdir"}
    /\ reg' = [reg EXCEPT ![r].pc = "crashed", ![r].res = "Crashed"]
    /\ last' = Call("register", Null, reg[r].email, NoId, "Crashed")
    /\ UNCHANGED <<users, profiles, restaurants, folders, next_uuid,
                   next_restaurant_id>>
    /\ RegUnchanged

(* ------------- create_dish, one storage round trip at a time ---------- *)
NoDish ==
    [email |-> Null, restaurant_id |-> NoId, category_id |-> NoId,
     name |-> Null, description |-> Null, price |-> NullNum, photo |-> Null,
     extra |-> Null]

IdleCreate ==
    [pc |-> "idle", actor |-> Null, dish |-> NoDish, restaurant_id |-> NoId,
     next_id |-> NoId, res |-> "None"]

CreateUnchanged ==
    UNCHANGED <<users, profiles, restaurants, categories, reset_tokens,
                folders, bearer, now, next_uuid, next_restaurant_id,
                next_token, reg, redeeming>>

\* create_new_dish: the restaurant_id handed to crud_create_dish
restaurant_id_of(current_user, dish) ==
    IF current_user.role = "superuser" THEN dish.restaurant_id
    ELSE (CHOOSE p \in ProfileByEmail(current_user.email) : TRUE).restaurant_id

\* POST /api/dishes/create/ up to the lookups of the restaurant and of the
\* category in crud_create_dish: whatever the uninterrupted handler refuses
\* is refused here
CreateBegin(r, cred, dish) ==
    /\ creating[r].pc = "idle"
    /\ LET out == create_new_dish(cred, dish)
       IN  IF out.res # "Ok"
           THEN /\ creating' = [creating EXCEPT ![r] =
                                   [IdleCreate EXCEPT !.pc = "done",
                                                      !.actor = ActorOf(cred),
                                                      !.dish = dish,
                                                      !.res = out.res]]
                /\ last' = Call("create_dish", ActorOf(cred), dish.email, NoId,
                                out.res)
           ELSE /\ creating' = [creating EXCEPT ![r] =
                                   [IdleCreate EXCEPT
                                      !.pc = "max_id",
                                      !.actor = ActorOf(cred),
                                      !.dish = dish,
                                      !.restaurant_id =
                                          restaurant_id_of(get_current_user(cred).user,
                                                           dish)]]
                /\ last' = last
    /\ UNCHANGED dishes
    /\ CreateUnchanged

\* next_id = await crud_get_next_dish_id(db)
CreateMaxId(r) ==
    /\ creating[r].pc = "max_id"
    /\ crud_get_next_dish_id <= MaxDishId
    /\ creating' = [creating EXCEPT ![r].pc = "insert",
                                    ![r].next_id = crud_get_next_dish_id]
    /\ UNCHANGED <<dishes, last>>
    /\ CreateUnchanged

\* db.add(dish); await db.commit(): dishes.id is the primary key and
\* dishes.restaurant_id a foreign key; the commit of a row that breaks either
\* raises IntegrityError, which create_new_dish (it catches ValueError) lets
\* through.
CreateInsert(r) ==
    /\ creating[r].pc = "insert"
    /\ LET req == creating[r]
           row == [id |-> req.next_id,
                   restaurant_id |-> req.restaurant_id,
                   category_id |-> req.dish.category_id,
                   name |-> req.dish.name,
                   photo |-> req.dish.photo,
                   description |-> req.dish.description,
                   price |-> quantize(req.dish.price),
                   extra |-> req.dish.extra]
       IN  IF \/ \E d \in dishes : d.id = req.next_id
              \/ ~\E q \in restaurants : q.id = req.restaurant_id
           THEN /\ creating' = [creating EXCEPT ![r].pc = "done",
                                                ![r].res = "IntegrityError"]
                /\ last' = Call("create_dish", req.actor, req.dish.email,
                                req.next_id, "IntegrityError")
                /\ UNCHANGED dishes
           ELSE /\ dishes' = dishes \cup {row}
                /\ creating' = [creating EXCEPT ![r].pc = "done",
                                                ![r].res = "Ok"]
                /\ last' = Call("create_dish", req.actor, req.dish.email,
                                req.next_id, "Ok")
    /\ CreateUnchanged

(* ----------- reset_password, one storage round trip at a time --------- *)
\* ''.join(random.choices(string.ascii_letters + string.digits, k=12)) of
\* two requests
RacePasswords == {"gen1", "gen2"}

NoToken == [token |-> NoId, user_id |-> NoId, expiry_time |-> 0]

IdleRedeem ==
    [pc |-> "idle", reset_token |-> NoToken, new_password |-> Null,
     res |-> "None"]

RedeemUnchanged ==
    UNCHANGED <<profiles, restaurants, dishes, categories, folders, bearer,
                now, next_uuid, next_restaurant_id, next_token, reg, creating>>

\* select(ResetToken).where(ResetToken.token == token), the expiry test and
\* the draw of the new password
RedeemSelectToken(r, token, new_password) ==
    /\ redeeming[r].pc = "idle"
    /\ LET found == {t \in reset_tokens : t.token = token}
           reset_token == CHOOSE t \in found : TRUE
       IN  IF found = {}
           THEN /\ redeeming' = [redeeming EXCEPT ![r] =
                                    [IdleRedeem EXCEPT
                                       !.pc = "done",
                                       !.reset_token = [NoToken EXCEPT
                                                          !.token = token],
                                       !.res = "InvalidToken"]]
                /\ last' = Call("reset_password", Null, Null, token,
                                "InvalidToken")
                /\ UNCHANGED reset_tokens
           ELSE IF reset_token.expiry_time < now
           THEN /\ redeeming' = [redeeming EXCEPT ![r] =
                                    [IdleRedeem EXCEPT
                                       !.pc = "done",
                                       !.reset_token = reset_token,
                                       !.res = "TokenExpired"]]
                /\ last' = Call("reset_password", Null, Null, token,
                                "TokenExpired")
                /\ reset_tokens' = reset_tokens \ {reset_token}
           ELSE /\ redeeming' = [redeeming EXCEPT ![r] =
                                    [IdleRedeem EXCEPT
                                       !.pc = "select_user",
                                       !.reset_token = reset_token,
                                       !.new_password = new_password]]
                /\ last' = last
                /\ UNCHANGED reset_tokens
    /\ UNCHANGED users
    /\ RedeemUnchanged

\* select(User).where(User.id == user_id)
RedeemSelectUser(r) ==
    /\ redeeming[r].pc = "select_user"
    /\ IF UserById(redeeming[r].reset_token.user_id) = {}
       THEN /\ redeeming' = [redeeming EXCEPT ![r].pc = "done",
                                              ![r].res = "NotFound"]
            /\ last' = Call("reset_password", Null, Null,
                            redeeming[r].reset_token.token, "NotFound")
       ELSE /\ redeeming' = [redeeming EXCEPT ![r].pc = "commit"]
            /\ last' = last
    /\ UNCHANGED <<users, reset_tokens>>
    /\ RedeemUnchanged

\* user.hashed_password = hashed_password; await db.delete(reset_token);
\* await db.commit(): an UPDATE of the user row and a DELETE of the token
\* row by their primary keys.  A DELETE that finds its row gone already
\* deletes nothing and the commit goes through.
RedeemCommit(r) ==
    /\ redeeming[r].pc = "commit"
    /\ users' = {IF u.id = redeeming[r].reset_token.user_id
                 THEN [u EXCEPT !.hashed_password =
                                    get_password_hash(redeeming[r].new_password)]
                 ELSE u : u \in users}
    /\ reset_tokens' = reset_tokens \ {redeeming[r].reset_token}
    /\ redeeming' = [redeeming EXCEPT ![r].pc = "send"]
    /\ UNCHANGED last
    /\ RedeemUnchanged

\* await send_email(...); return
RedeemSend(r, mail_ok) ==
    /\ redeeming[r].pc = "send"
    /\ LET res == IF mail_ok THEN "Ok" ELSE "UpstreamDeliveryFailure"
       IN  /\ redeeming' = [redeeming EXCEPT ![r].pc = "done", ![r].res = res]
           /\ last' = Call("reset_password", Null, Null,
                           redeeming[r].reset_token.token, res)
    /\ UNCHANGED <<users, reset_tokens>>
    /\ RedeemUnchanged

(* ------------------------------ Init ---------------------------------- *)
\* The deployed database: the tables of Base.metadata.create_all, one seeded
\* superuser (no handler can create the first one) and the category rows.
Init ==
    /\ users = {[id |-> 0, email |-> AdminEmail,
                 hashed_password |-> get_password_hash("pw1"),
                 role |-> "superuser", approved |-> TRUE]}
    /\ profiles = {}
    /\ restaurants = {}
    /\ dishes = {}
    /\ categories = {1}
    /\ reset_tokens = {}
    /\ folders = {}
    /\ bearer = {}
    /\ now = 0
    /\ next_uuid = 1
    /\ next_restaurant_id = 1
    /\ next_token = 1
    /\ reg = [r \in ReqIds |-> IdleRequest]
    /\ creating = [r \in ReqIds |-> IdleCreate]
    /\ redeeming = [r \in ReqIds |-> IdleRedeem]
    /\ last = Call("init", Null, Null, NoId, "None")

(* ---------------- identity and access: the users' API ----------------- *)
\* Headers the modelled clients send: a token they were issued, or none.
Sent == bearer \cup {NoCred}

\* The clients whose sessions are followed: the administrator and a@x log
\* in; b@x is registered or created, and is the others' target.
Next ==
    \/ \E h \in Sent, e \in {AdminEmail, "a@x"}, p \in Passwords : Login(h, e, p)
    \/ \E h \in Sent, e \in Emails : Register(h, e, "pw1")
    \/ \E c \in Sent : AllUsers(c)
    \/ \E c \in Sent : AllSuperusers(c)
    \/ \E c \in Sent, e \in Emails : Approve(c, e)
    \/ \E c \in Sent, r \in RoleInputs : CreateUser(c, "b@x", "pw1", r)
    \/ \E c \in Sent, e \in Emails : DeleteUser(c, e)
    \/ \E c \in Sent : AllRestaurants(c)
    \/ \E c \in Sent, e \in Emails : GetProfile(c, e)
    \/ \E c \in Sent, e \in Emails, b \in ProfilePatches : UpdateProfile(c, e, b)
    \/ \E c \in Sent, e \in Emails : ChangePassword(c, e, "pw2")

Spec == Init /\ [][Next]_vars

(* ------------------------- menu management ---------------------------- *)
NextMenu ==
    \/ \E e \in Emails : Login(NoCred, e, "pw1")
    \/ \E e \in Emails : Register(NoCred, e, "pw1")
    \/ \E c \in Sent, d \in DishCreates : CreateDish(c, d)
    \/ \E c \in Sent, d \in DishUpdates : UpdateDish(c, d)
    \/ \E c \in Sent, d \in DishDeletes : DeleteDish(c, d)
    \/ \E c \in Sent, i \in 1 .. MaxDishId : GetDish(c, i)
    \/ \E c \in Sent, e \in Emails : ListDishes(c, e)

SpecMenu == Init /\ [][NextMenu]_vars

(* ------------------------- cascading deletion ------------------------- *)
NextCascade ==
    \/ Login(NoCred, AdminEmail, "pw1")
    \/ \E e \in Emails : Register(NoCred, e, "pw1")
    \/ \E c \in Sent, d \in DishCreates : CreateDish(c, d)
    \/ \E e \in Emails : RequestReset(e, TRUE)
    \/ \E c \in Sent, e \in Emails : DeleteUser(c, e)

SpecCascade == Init /\ [][NextCascade]_vars

(* -------------------------- password recovery ------------------------- *)
NextReset ==
    \/ \E e \in Emails : Register(NoCred, e, "pw1")
    \/ \E e \in Emails, m \in BOOLEAN : RequestReset(e, m)
    \/ \E t \in 1 .. MaxResetTokens, p \in GeneratedPasswords, m \in BOOLEAN :
           RedeemReset(t, p, m)
    \/ Tick

SpecReset == Init /\ [][NextReset]_vars

(* ----------------------- concurrent registration ---------------------- *)
NextRace ==
    \/ \E r \in ReqIds, e \in Emails : RegBegin(r, e)
    \/ \E r \in ReqIds : RegCheck(r)
    \/ \E r \in ReqIds : RegAddUser(r)
    \/ \E r \in ReqIds : RegAddProfile(r)
    \/ \E r \in ReqIds : RegAddRestaurant(r)
    \/ \E r \in ReqIds : RegLink(r)
    \/ \E r \in ReqIds : RegMkdir(r)

SpecRace == Init /\ [][NextRace]_vars

(* ----------------------- concurrent create_dish ----------------------- *)
NextCreateRace ==
    \/ \E e \in {AdminEmail, "a@x"} : Login(NoCred, e, "pw1")
    \/ \E e \in Emails \ {AdminEmail} : Register(NoCred, e, "pw1")
    \/ \E r \in ReqIds, c \in Sent, d \in DishCreates : CreateBegin(r, c, d)
    \/ \E r \in ReqIds : CreateMaxId(r)
    \/ \E r \in ReqIds : CreateInsert(r)

SpecCreateRace == Init /\ [][NextCreateRace]_vars

(* ------------------- registration that may crash ---------------------- *)
NextCrash ==
    \/ \E r \in ReqIds, e \in Emails \ {AdminEmail} : RegBegin(r, e)
    \/ \E r \in ReqIds : RegCheck(r)
    \/ \E r \in ReqIds : RegAddUser(r)
    \/ \E r \in ReqIds : RegAddProfile(r)
    \/ \E r \in ReqIds : RegAddRestaurant(r)
    \/ \E r \in ReqIds : RegLink(r)
    \/ \E r \in ReqIds : RegMkdir(r)
    \/ \E r \in ReqIds : RegCrash(r)

SpecCrash == Init /\ [][NextCrash]_vars

(* ---------------------- concurrent reset_password --------------------- *)
NextRedeemRace ==
    \/ Register(NoCred, "a@x", "pw1")
    \/ \E e \in {AdminEmail, "a@x"} : RequestReset(e, TRUE)
    \/ \E r \in ReqIds, t \in 1 .. MaxResetTokens, p \in RacePasswords :
           RedeemSelectToken(r, t, p)
    \/ \E r \in ReqIds : RedeemSelectUser(r)
    \/ \E r \in ReqIds : RedeemCommit(r)
    \/ \E r \in ReqIds, m \in BOOLEAN : RedeemSend(r, m)
    \/ Tick

SpecRedeemRace == Init /\ [][NextRedeemRace]_vars

(* ------------------------ every writing operation --------------------- *)
\* The administrator's session: the superuser writes the dishes of a@x and
\* moves them to the restaurant of b@x; a@x registers, b@x is created.
NextIntegrity ==
    \/ Login(NoCred, AdminEmail, "pw1")
    \/ Register(NoCred, "a@x", "pw1")
    \/ \E c \in Sent : CreateUser(c, "b@x", "pw1", "restaurant")
    \/ \E c \in Sent, e \in {"a@x", "b@x"} : DeleteUser(c, e)
    \/ \E c \in Sent, d \in {x \in DishCreates : x.email = "a@x"} :
           CreateDish(c, d)
    \/ \E c \in Sent, d \in {x \in DishUpdates : x.email = "a@x"} :
           UpdateDish(c, d)
    \/ \E c \in Sent, d \in {x \in DishDeletes : x.email = "a@x"} :
           DeleteDish(c, d)
    \/ RequestReset("a@x", TRUE)
    \/ \E t \in 1 .. MaxResetTokens, p \in GeneratedPasswords :
           RedeemReset(t, p, TRUE)

SpecIntegrity == Init /\ [][NextIntegrity]_vars

(* ============================ properties ============================== *)
Authenticated(cred) == get_current_user(cred).err = "None"
Actor(cred) == get_current_user(cred).user
OwnRestaurantIds(email) == {p.restaurant_id : p \in ProfileByEmail(email)}
DishById(id) == {d \in dishes : d.id = id}

\* C1: a restaurant-role actor's update or delete of a dish that belongs to a
\* restaurant other than the one linked to the actor's profile is answered
\* Forbidden and leaves the dish as it was, whatever email the body carries;
\* the same call by a superuser succeeds for a dish of any restaurant.
C1_ForeignDishIsForbidden ==
    \A c \in Creds :
        Authenticated(c) =>
            /\ \A d \in DishUpdates : \A t \in DishById(d.dish_id) :
                  /\ (/\ Actor(c).role = "restaurant"
                      /\ t.restaurant_id \notin OwnRestaurantIds(Actor(c).email))
                     => /\ update_dish_route(c, d).res = "Forbidden"
                        /\ update_dish_route(c, d).dishes = dishes
                  /\ (Actor(c).role = "superuser" /\ d.restaurant_id = NoId)
                     => update_dish_route(c, d).res = "Ok"
            /\ \A d \in DishDeletes : \A t \in DishById(d.dish_id) :
                  /\ (/\ Actor(c).role = "restaurant"
                      /\ t.restaurant_id \notin OwnRestaurantIds(Actor(c).email))
                     => /\ delete_dish(c, d).res = "Forbidden"
                        /\ delete_dish(c, d).dishes = dishes
                  /\ Actor(c).role = "superuser" => delete_dish(c, d).res = "Ok"

\* C2: a call that ends in an authentication failure or in Forbidden leaves
\* users, profiles, restaurants, dishes, reset tokens and photo folders as
\* they were: no handler writes before its authorization check.
AuthFailures ==
    {"NotAuthenticated", "InvalidAuthentication", "InvalidCredentials",
     "Forbidden"}
Denied(out) == out.res \in AuthFailures => StoreOf(out) = store
C2_DeniedCallsWriteNothing ==
    \A c \in Creds :
        /\ Denied(all_users(c)) /\ Denied(all_superusers(c))
        /\ Denied(all_restaurants(c))
        /\ \A e \in Emails :
              /\ Denied(approve(c, e)) /\ Denied(delete_user(c, e))
              /\ Denied(get_profile_by_email(c, e))
              /\ Denied(get_dishes_by_email(c, e))
              /\ \A p \in Passwords :
                    /\ Denied(login(c, e, p)) /\ Denied(register_user(c, e, p))
                    /\ Denied(change_password(c, e, p))
                    /\ \A r \in Roles : Denied(create_user(c, e, p, r))
              /\ \A b \in ProfilePatches : Denied(update_profile_by_email(c, e, b))
        /\ \A i \in 1 .. MaxDishId : Denied(get_dish_by_id(c, i))
        /\ \A d \in DishCreates : Denied(create_new_dish(c, d))
        /\ \A d \in DishUpdates : Denied(update_dish_route(c, d))
        /\ \A d \in DishDeletes : Denied(delete_dish(c, d))

\* a restaurant's delete of an existing dish was refused
C2_Witness ==
    /\ last.op = "delete_dish" /\ last.res = "Forbidden"
    /\ DishById(last.id) # {}
    /\ \E u \in users : u.approved = FALSE

\* C3: the authorization table.  A superuser is never answered Forbidden for
\* its role; a restaurant actor is authorized for get profile, update
\* profile and change password exactly when the target email is its own,
\* and is always Forbidden on list users, list superusers, approve, create
\* user, delete user and list all restaurants.
Permitted(user, rule, email) ==
    \/ user.role = "superuser"
    \/ rule = "own" /\ user.role = "restaurant" /\ user.email = email
Refused(out) == out.res = "Forbidden"
C3_AuthorizationTable ==
    \A c \in Creds :
        Authenticated(c) =>
            /\ Refused(all_users(c)) <=> ~Permitted(Actor(c), "superuser", Null)
            /\ Refused(all_superusers(c)) <=> ~Permitted(Actor(c), "superuser", Null)
            /\ Refused(all_restaurants(c)) <=> ~Permitted(Actor(c), "superuser", Null)
            /\ \A e \in Emails :
                  /\ Refused(approve(c, e)) <=> ~Permitted(Actor(c), "superuser", e)
                  /\ Refused(delete_user(c, e)) <=> ~Permitted(Actor(c), "superuser", e)
                  /\ Refused(get_profile_by_email(c, e))
                         <=> ~Permitted(Actor(c), "own", e)
                  /\ \A p \in Passwords :
                        /\ Refused(change_password(c, e, p))
                               <=> ~Permitted(Actor(c), "own", e)
                        /\ \A r \in Roles :
                              Refused(create_user(c, e, p, r))
                                 <=> ~Permitted(Actor(c), "superuser", e)
                  /\ \A b \in ProfilePatches :
                        Refused(update_profile_by_email(c, e, b))
                           <=> ~Permitted(Actor(c), "own", e)

\* a@x, a restaurant, was refused the update of b@x's existing profile
C3_Witness ==
    /\ last.op = "update_profile" /\ last.res = "Forbidden"
    /\ last.actor = "a@x" /\ last.email = "b@x"
    /\ ProfileByEmail("b@x") # {}

\* C4: after register returns successfully for an email that no user had,
\* there is exactly one user with that email (role restaurant, not
\* approved), exactly one profile of that user, exactly one restaurant that
\* was not there before, the profile's restaurant_id is that restaurant's
\* id, and the restaurant's photo folder exists.
C4_RegistrationCreatesAggregate ==
    [][(/\ last'.op = "register" /\ last'.res = "Ok"
        /\ UserByEmail(last'.email) = {})
       => LET us == {u \in users' : u.email = last'.email}
              ps == {p \in profiles' : \E u \in us : p.user_id = u.id}
              rs == {r \in restaurants' : \A q \in restaurants : q.id # r.id}
          IN  /\ Cardinality(us) = 1
              /\ \A u \in us : u.role = "restaurant" /\ u.approved = FALSE
              /\ Cardinality(ps) = 1
              /\ Cardinality(rs) = 1
              /\ Cardinality(restaurants') = Cardinality(restaurants) + 1
              /\ \A p \in ps, r \in rs :
                    p.restaurant_id = r.id /\ r.id \in folders']_vars

\* b@x has just registered
C4_Witness ==
    /\ last.op = "register" /\ last.res = "Ok" /\ last.email = "b@x"
    /\ \E p \in ProfileByEmail("b@x") : p.restaurant_id \in folders

\* C5: register (by a caller without a session) and create_user (by a
\* superuser) with an email some user already has end in DuplicateEmail and
\* leave the numbers of users, profiles, restaurants and photo folders as
\* they were.
CountsOf(out) ==
    <<Cardinality(out.users), Cardinality(out.profiles),
      Cardinality(out.restaurants), Cardinality(out.folders)>>
Rejected(out) ==
    out.res = "DuplicateEmail" /\ CountsOf(out) = CountsOf(Same("None"))
C5_DuplicateEmailRejected ==
    \A e \in Emails :
        UserByEmail(e) # {} =>
            \A p \in Passwords :
                /\ Rejected(register_user(NoCred, e, p))
                /\ \A c \in Creds, r \in Roles :
                      (Authenticated(c) /\ Actor(c).role = "superuser")
                         => Rejected(create_user(c, e, p, r))

\* a registration with the email of a registered restaurant was rejected
C5_Witness ==
    /\ last.op = "register" /\ last.res = "DuplicateEmail"
    /\ last.email = "a@x"
    /\ ProfileByEmail("a@x") # {}

\* C6: of two registration requests with one email that run concurrently,
\* the store never holds two users with the email, exactly one request
\* succeeds, and the other ends in DuplicateEmail (not in a storage error)
\* having created no profile and no restaurant.
C6_RaceLoserGetsDuplicateEmail ==
    \A r1 \in ReqIds : \A r2 \in ReqIds \ {r1} :
        (reg[r1].email = reg[r2].email /\ reg[r1].email \notin {Null, AdminEmail})
           => /\ Cardinality(UserByEmail(reg[r1].email)) <= 1
              /\ (reg[r1].pc = "done" /\ reg[r2].pc = "done")
                 => /\ {reg[r1].res, reg[r2].res} = {"Ok", "DuplicateEmail"}
                    /\ Cardinality(profiles) = 1
                    /\ Cardinality(restaurants) = 1

\* C7: delete_user by a superuser, for a restaurant user with any number of
\* dishes and of outstanding reset tokens, succeeds and leaves no user with
\* the email, no profile of the user, not the restaurant its profile was
\* linked to, and no dish of that restaurant.
C7_DeleteUserCascades ==
    \A c \in Creds, e \in Emails :
        (/\ Authenticated(c) /\ Actor(c).role = "superuser"
         /\ \E u \in UserByEmail(e) : u.role = "restaurant")
        => LET out == delete_user(c, e)
               ids == {u.id : u \in UserByEmail(e)}
               linked == OwnRestaurantIds(e)
           IN  /\ out.res = "Ok"
               /\ \A u \in out.users : u.email # e
               /\ \A p \in out.profiles : p.user_id \notin ids
               /\ \A r \in out.restaurants : r.id \notin linked
               /\ \A d \in out.dishes : d.restaurant_id \notin linked

\* C8: spent reset tokens are absorbing.  A token that reset_password has
\* redeemed, or has found expired, is spent; a spent token stays spent, and
\* every later reset_password with it ends in InvalidToken and changes no
\* password hash.
Spent(t) ==
    t < next_token /\ \A row \in reset_tokens : row.token # t
C8_SpentTokensAreAbsorbing ==
    [][\A t \in 1 .. MaxResetTokens :
          /\ (/\ last'.op = "reset_password" /\ last'.id = t
              /\ last'.res \in {"Ok", "UpstreamDeliveryFailure", "TokenExpired"}
              /\ ~Spent(t))
             => Spent(t)'
          /\ Spent(t)
             => /\ Spent(t)'
                /\ (last'.op = "reset_password" /\ last'.id = t)
                   => last'.res = "InvalidToken" /\ users' = users]_vars

\* a token that had been issued was refused as invalid
C8_Witness ==
    /\ last.op = "reset_password" /\ last.res = "InvalidToken"
    /\ Spent(last.id)
    /\ \E u \in users : u.hashed_password = get_password_hash("gen1")

\* C9: a reset token created at time t expires at t + 1 hour.  reset_password
\* at a time after the expiry ends in TokenExpired, removes the token and
\* changes no password hash; at any time up to the expiry it replaces the
\* owner's hash and consumes the token, and it returns success when the mail
\* with the new password is delivered.
C9_ResetTokenExpiry ==
    /\ \A e \in Emails, m \in BOOLEAN :
          UserByEmail(e) # {} =>
              LET new == request_password_reset(e, m).reset_tokens \ reset_tokens
              IN  /\ Cardinality(new) = 1
                  /\ \A t \in new : t.expiry_time = now + 1
    /\ \A t \in reset_tokens, p \in GeneratedPasswords, m \in BOOLEAN :
          LET out == reset_password(t.token, p, m)
          IN  IF now > t.expiry_time
              THEN /\ out.res = "TokenExpired"
                   /\ t \notin out.reset_tokens
                   /\ out.users = users
              ELSE /\ m => out.res = "Ok"
                   /\ t \notin out.reset_tokens
                   /\ \E u \in out.users :
                         /\ u.id = t.user_id
                         /\ u.hashed_password = get_password_hash(p)

\* a token was found expired, two hours after the first one was issued
C9_Witness ==
    /\ last.op = "reset_password" /\ last.res = "TokenExpired"
    /\ now = 2

\* C10: change_password by the target user, or by a superuser, for an
\* existing user succeeds without the old password, and the stored hash
\* then verifies the new password.
C10_ChangePasswordSucceeds ==
    \A c \in Creds, e \in Emails, p \in Passwords :
        (/\ Authenticated(c) /\ UserByEmail(e) # {}
         /\ (Actor(c).email = e \/ Actor(c).role = "superuser"))
        => LET out == change_password(c, e, p)
           IN  /\ out.res = "Ok"
               /\ \A u \in out.users :
                     u.email = e => verify_password(p, u.hashed_password)

\* C11: for a user stored with email e and the hash of password p, and
\* approved, login(e, p) without a session succeeds and issues a token whose
\* subject claim is e and whose role claim is the stored role; before its
\* expiry get_current_user resolves that token to the same user.
C11_LoginIssuesResolvableToken ==
    \A e \in Emails, p \in Passwords :
        \A u \in UserByEmail(e) :
            (u.approved /\ verify_password(p, u.hashed_password))
            => LET out == login(NoCred, e, p)
                   issued == {t \in out.bearer :
                                t.sub = e /\ t.role = u.role /\ t.exp > now}
               IN  /\ out.res = "Ok"
                   /\ issued # {}
                   /\ \A t \in out.bearer \ bearer : t \in issued
                   /\ \A t \in issued :
                         get_current_user(t) = [err |-> "None", user |-> u]

\* a@x, registered and approved, has logged in
C11_Witness ==
    /\ last.op = "login" /\ last.res = "Ok" /\ last.email = "a@x"
    /\ \E u \in UserByEmail("a@x") : u.approved /\ u.role = "restaurant"
    /\ \E t \in bearer : t.sub = "a@x" /\ t.role = "restaurant"

\* C12: get_current_user fails with the one error kind InvalidCredentials
\* (401) for a token with an invalid signature, for an expired token and for
\* a subject that is no user's email; it returns a user only for a correctly
\* signed, unexpired token whose subject is the email of an existing user.
C12_ResolveTokenErrorKind ==
    \A c \in Creds \ {NoCred} :
        IF c.sig = "ok" /\ c.exp > now /\ UserByEmail(c.sub) # {}
        THEN /\ get_current_user(c).err = "None"
             /\ get_current_user(c).user \in UserByEmail(c.sub)
        ELSE get_current_user(c).err = "InvalidCredentials"

\* Ratings a body may submit, in hundredths: -0.1, -0.04, 0.0, 4.5, 9.9,
\* 9.95 and 10.0
RatingInputs == {0 - 10, 0 - 4, 0, 450, 990, 995, 1000}
ProfileOf(out, email) ==
    {p \in out.profiles : \E u \in UserByEmail(email) : p.user_id = u.id}
MayUpdate(cred, email) ==
    /\ Authenticated(cred)
    /\ (Actor(cred).role = "superuser" \/ Actor(cred).email = email)

\* C13: update_profile accepts a submitted rating exactly when the submitted
\* value lies in [0.0, 9.9]: 9.95, -0.1 and every other value outside the
\* range, before any rounding, are rejected with InvalidArgument and nothing
\* is stored; 9.9 is accepted and reads back as 9.9; every rating stored on a
\* profile or a restaurant is in [0.0, 9.9] with one decimal digit.
C13_RatingRangeBeforeRounding ==
    /\ \A c \in Creds, e \in Emails, k \in RatingInputs :
          (MayUpdate(c, e) /\ ProfileByEmail(e) # {})
          => LET out == update_profile_by_email(c, e, [NoPatch EXCEPT !.rating = k])
             IN  IF 0 <= k /\ k <= 990
                 THEN /\ out.res = "Ok"
                      /\ k = 990 => \A p \in ProfileOf(out, e) : p.rating = 99
                 ELSE out.res = "InvalidArgument" /\ StoreOf(out) = store
    /\ \A p \in profiles : p.rating = NullNum \/ (0 <= p.rating /\ p.rating <= 99)
    /\ \A r \in restaurants : 0 <= r.rating /\ r.rating <= 99

\* crud_get_dishes_by_email: Decimal(str(dish.price)).quantize(Decimal('0.01'))
\* of a stored price, in cents
listed_price(price) == quantize(price * 100)

\* Prices a DishCreate body may carry, in 1/10000: 1.25, 1.005, 1.015,
\* 1.2345 and 9.9999
PriceInputs == {12500, 10050, 10150, 12345, 99999}
HalfUp(price) == (price + 50) \div 100

\* C14: for every dish price P with up to 4 decimal digits, create_dish and
\* then list_dishes give back P rounded to 2 decimals half-up, and to
\* normalize the normalized price again gives the same value.  Stated for
\* every create call that succeeds with a two-decimal price: the same call
\* with price P.
C14_PriceRoundsHalfUp ==
    \A c \in Creds, d \in DishCreates, P \in PriceInputs :
        create_new_dish(c, d).res = "Ok"
        => LET out == create_new_dish(c, [d EXCEPT !.price = P])
               new == out.dishes \ dishes
           IN  /\ out.res = "Ok"
               /\ new # {}
               /\ \A n \in new :
                     /\ listed_price(n.price) = HalfUp(P)
                     /\ listed_price(listed_price(n.price)) = listed_price(n.price)

\* C15: create_user with role superuser creates a user with approved = true
\* and no profile, restaurant or photo folder; create_user or register with
\* role restaurant creates the user with approved = false; a role outside
\* {superuser, restaurant} is rejected and creates nothing; every stored
\* user has one of the two roles.
C15_RoleDecidesProvisioning ==
    /\ \A u \in users : u.role \in Roles
    /\ \A e \in Emails, p \in Passwords :
          UserByEmail(e) = {}
          => /\ LET rg == register_user(NoCred, e, p)
                IN  /\ rg.res = "Ok"
                    /\ Cardinality(rg.users \ users) = 1
                    /\ \A u \in rg.users \ users :
                          u.email = e /\ u.role = "restaurant" /\ u.approved = FALSE
             /\ \A c \in Creds :
                   (Authenticated(c) /\ Actor(c).role = "superuser")
                   => LET su == create_user(c, e, p, "superuser")
                          re == create_user(c, e, p, "restaurant")
                      IN  /\ su.res = "Ok"
                          /\ Cardinality(su.users \ users) = 1
                          /\ \A u \in su.users \ users :
                                u.email = e /\ u.role = "superuser" /\ u.approved = TRUE
                          /\ su.profiles = profiles
                          /\ su.restaurants = restaurants
                          /\ su.folders = folders
                          /\ re.res = "Ok"
                          /\ Cardinality(re.users \ users) = 1
                          /\ \A u \in re.users \ users :
                                u.email = e /\ u.role = "restaurant" /\ u.approved = FALSE
                          /\ \A r \in RoleInputs \ Roles :
                                /\ create_user(c, e, p, r).res # "Ok"
                                /\ StoreOf(create_user(c, e, p, r)) = store

\* the superuser has created b@x as a superuser
C15_Witness ==
    /\ last.op = "create_user" /\ last.res = "Ok" /\ last.email = "b@x"
    /\ \E u \in UserByEmail("b@x") : u.role = "superuser" /\ u.approved
    /\ ProfileByEmail("b@x") = {}
    /\ restaurants = {}

(* --------------------------- user accounts ---------------------------- *)
\* Every operation that writes the users table, and the profile update: the
\* administrator's session, the restaurant a@x and a second superuser b@x.
NextAccounts ==
    \/ Login(NoCred, AdminEmail, "pw1")
    \/ Register(NoCred, "a@x", "pw1")
    \/ \E c \in Sent : CreateUser(c, "b@x", "pw1", "superuser")
    \/ \E c \in Sent, e \in {"a@x", "b@x"} : Approve(c, e)
    \/ \E c \in Sent, e \in {"a@x", "b@x"} : DeleteUser(c, e)
    \/ \E c \in Sent : ChangePassword(c, "a@x", "pw2")
    \/ \E c \in Sent : UpdateProfile(c, "a@x", [NoPatch EXCEPT !.rating = 450])
    \/ \E e \in {"a@x", "b@x"} : RequestReset(e, TRUE)
    \/ \E t \in 1 .. MaxResetTokens, p \in GeneratedPasswords :
           RedeemReset(t, p, TRUE)

SpecAccounts == Init /\ [][NextAccounts]_vars

\* C16: across any sequence of operations an existing user's id, email and
\* role never change; its approved flag changes only by approve and never
\* back to false; its hashed_password changes only by change_password and
\* reset_password; and a user row is removed only by delete_user called by a
\* superuser.
C16_UserFrame ==
    [][/\ \A u \in users :
             LET after == {v \in users' : v.id = u.id}
             IN  IF after = {}
                 THEN /\ last'.op = "delete_user" /\ last'.res = "Ok"
                      /\ last'.email = u.email
                      /\ \E a \in UserByEmail(last'.actor) : a.role = "superuser"
                 ELSE \A v \in after :
                         /\ v.email = u.email /\ v.role = u.role
                         /\ u.approved => v.approved
                         /\ v.approved # u.approved => last'.op = "approve"
                         /\ v.hashed_password # u.hashed_password
                               => last'.op \in {"change_password", "reset_password"}]_vars

\* an approved restaurant user has redeemed a reset token
C16_Witness ==
    /\ last.op = "reset_password" /\ last.res = "Ok"
    /\ \E u \in users :
          /\ u.role = "restaurant" /\ u.approved
          /\ u.hashed_password = get_password_hash("gen1")

\* DishUpdate bodies with every combination of supplied and absent fields;
\* the price 2.00 in 1/10000
DishPatches ==
    [email : Emails \ {AdminEmail}, dish_id : 1 .. MaxDishId,
     restaurant_id : {NoId, 2}, name : {Null, "stew"}, description : {Null},
     price : {NullNum, 20000}, photo : {Null}, extra : {Null}]

\* the dish a patch asks for: every supplied field replaced, but for the
\* restaurant_id
Patched(t, b) ==
    [t EXCEPT !.name = IF b.name # Null THEN b.name ELSE @,
              !.description = IF b.description # Null THEN b.description ELSE @,
              !.price = IF b.price # NullNum THEN b.price \div 100 ELSE @,
              !.photo = IF b.photo # Null THEN b.photo ELSE @,
              !.extra = IF b.extra # Null THEN b.extra ELSE @]

\* C17: update_dish applies a restaurant_id of the patch only when the actor
\* is a superuser; for a restaurant actor (on a dish of its own restaurant)
\* the call still succeeds, applies every other supplied field and leaves
\* the dish's restaurant_id as it was; in both cases the fields absent from
\* the patch, the dish id and the category_id keep their values.
C17_DishPatchFrame ==
    \A c \in {x \in Creds : Authenticated(x)}, b \in DishPatches :
        \A t \in DishById(b.dish_id) :
            LET out == update_dish_route(c, b)
            IN  /\ (/\ Actor(c).role = "restaurant"
                    /\ Actor(c).email = b.email
                    /\ t.restaurant_id \in OwnRestaurantIds(b.email))
                   => /\ out.res = "Ok"
                      /\ out.dishes = (dishes \ {t}) \cup {Patched(t, b)}
                /\ (Actor(c).role = "superuser" /\ out.res = "Ok")
                   => out.dishes =
                        (dishes \ {t}) \cup
                        {[Patched(t, b) EXCEPT
                            !.restaurant_id = IF b.restaurant_id # NoId
                                              THEN b.restaurant_id ELSE @]}

\* a@x, whose restaurant is 1, has updated a dish that is still in
\* restaurant 1, while restaurant 2 exists
C17_Witness ==
    /\ last.op = "update_dish" /\ last.res = "Ok" /\ last.actor = "a@x"
    /\ OwnRestaurantIds("a@x") = {1}
    /\ \E r \in restaurants : r.id = 2
    /\ \E d \in DishById(last.id) : d.name = "stew" /\ d.restaurant_id = 1

\* UserProfileUpdate bodies that supply one field, some of them as null
PatchInputs ==
    ProfilePatches \cup
    {[NoPatch EXCEPT !.restaurant_name = Null],
     [NoPatch EXCEPT !.restaurant_currency = Null],
     [NoPatch EXCEPT !.telegram = "tg"],
     [NoPatch EXCEPT !.rating = NullNum],
     [NoPatch EXCEPT !.tables_amount = NullNum],
     [NoPatch EXCEPT !.tables_amount = 5]}

NumericFields == {"rating", "tables_amount"}
Absent(b, f) == IF f \in NumericFields THEN b[f] = UnsetNum ELSE b[f] = Unset

\* the Restaurant column that holds the profile's copy
RestaurantColumn ==
    [restaurant_name |-> "name", restaurant_photo |-> "photo",
     rating |-> "rating", restaurant_currency |-> "currency",
     tables_amount |-> "tables_amount"]

RestaurantOf(out, p) == {r \in out.restaurants : r.id = p.restaurant_id}

\* C18: after any sequence of successful update_profile calls on a profile
\* with a linked restaurant, every restaurant-owned field that some patch
\* has touched (name, photo, rating, currency, tables_amount) has the same
\* value in the profile's copy and in the Restaurant row.  Stated step by
\* step: a successful call leaves in agreement every field its patch carries
\* and every field that was in agreement before it.
C18_ProfileAndRestaurantAgree ==
    \A c \in Creds, e \in Emails, b \in PatchInputs :
        MayUpdate(c, e)
        => LET out == update_profile_by_email(c, e, b)
           IN  \A p \in ProfileByEmail(e) : \A r \in RestaurantOf(Same("None"), p) :
                 \A p1 \in ProfileOf(out, e) : \A r1 \in RestaurantOf(out, p1) :
                   out.res = "Ok"
                   => \A f \in DOMAIN RestaurantColumn :
                        (~Absent(b, f) \/ p[f] = r[RestaurantColumn[f]])
                        => p1[f] = r1[RestaurantColumn[f]]

\* the body with every explicit null left out
NullAsAbsent(b) ==
    [f \in DOMAIN b |->
        IF f \in NumericFields
        THEN IF b[f] = NullNum THEN UnsetNum ELSE b[f]
        ELSE IF b[f] = Null THEN Unset ELSE b[f]]

\* C19: update_profile changes only the fields present in the patch: every
\* absent field keeps its value on the profile and on the Restaurant row; a
\* field supplied as explicit null is treated exactly like an absent field;
\* and for an email with no profile the call fails with NotFound and changes
\* nothing.
C19_PatchFrameAndNulls ==
    \A c \in Creds, e \in Emails, b \in PatchInputs :
        MayUpdate(c, e)
        => LET out == update_profile_by_email(c, e, b)
               same == update_profile_by_email(c, e, NullAsAbsent(b))
           IN  /\ out.res = same.res /\ StoreOf(out) = StoreOf(same)
               /\ \A p \in ProfileByEmail(e) : \A p1 \in ProfileOf(out, e) :
                     /\ \A f \in DOMAIN NoPatch : Absent(b, f) => p1[f] = p[f]
                     /\ \A r \in RestaurantOf(Same("None"), p) :
                           \A r1 \in RestaurantOf(out, p1) :
                              \A f \in DOMAIN RestaurantColumn :
                                 Absent(b, f)
                                 => r1[RestaurantColumn[f]] = r[RestaurantColumn[f]]
               /\ (ProfileByEmail(e) = {} /\ same.res # "InvalidArgument")
                  => same.res = "NotFound" /\ StoreOf(same) = store

\* C20: across create_dish and delete_dish a new dish never gets the id of an
\* earlier dish, a deleted one included.  Stated on consecutive calls: the id
\* of the dish that the preceding call deleted is not the id of a dish the
\* next call adds.
C20_DishIdsNeverReused ==
    [][(last.op = "delete_dish" /\ last.res = "Ok")
       => \A d \in dishes' \ dishes : d.id # last.id]_vars

\* C21: when two create_dish requests interleave, the query of the largest
\* dish id and the insert of each request act as one step: two requests that
\* are about to insert hold different dish ids, and no request ends in a
\* storage error because the id it computed was taken by the other.
C21_CreateDishIdIsAtomic ==
    \A r1 \in ReqIds : \A r2 \in ReqIds \ {r1} :
        /\ (creating[r1].pc = "insert" /\ creating[r2].pc = "insert")
           => creating[r1].next_id # creating[r2].next_id
        /\ creating[r1].pc = "done" => creating[r1].res # "IntegrityError"

\* a stored token that has not expired and whose owner exists is redeemed
\* successfully when the mail is delivered
Redeemable(t) ==
    \A p \in GeneratedPasswords :
        LET out == reset_password(t.token, p, TRUE)
        IN  /\ out.res = "Ok"
            /\ t \notin out.reset_tokens
            /\ \E u \in out.users :
                  u.id = t.user_id /\ u.hashed_password = get_password_hash(p)

\* C22: request_reset does not invalidate earlier tokens.  When two tokens of
\* one user are stored and unexpired, the successful redemption of one
\* leaves the other stored, and the other is then still redeemed
\* successfully, as is every stored token up to its own expiry.
C22_EarlierTokensStayRedeemable ==
    [][/\ \A t1 \in reset_tokens : \A t2 \in reset_tokens \ {t1} :
             (/\ t1.user_id = t2.user_id
              /\ t1.expiry_time >= now /\ t2.expiry_time >= now
              /\ last'.op = "reset_password" /\ last'.id = t1.token
              /\ last'.res = "Ok")
             => t2 \in reset_tokens' /\ Redeemable(t2)'
       /\ \A t \in reset_tokens' :
             (t.expiry_time >= now' /\ UserById(t.user_id)' # {})
             => Redeemable(t)']_vars

\* one of the two tokens of a user has been redeemed and the other is still
\* stored and unexpired
C22_Witness ==
    /\ last.op = "reset_password" /\ last.res = "Ok"
    /\ Cardinality({u \in users :
                      u.hashed_password = get_password_hash("gen1")}) = 1
    /\ \E t2 \in reset_tokens :
          /\ t2.expiry_time >= now
          /\ \E u \in UserById(t2.user_id) :
                u.hashed_password = get_password_hash("gen1")

\* C23: a request-reset or reset-password call that ends in an error because
\* the mail was not delivered leaves the stored state as it was before the
\* call: request-reset has stored no reset token; reset-password has left
\* the password hash unchanged and the token stored.
C23_DeliveryFailureStoresNothing ==
    /\ \A e \in Emails :
          LET out == request_password_reset(e, FALSE)
          IN  out.res = "UpstreamDeliveryFailure" => StoreOf(out) = store
    /\ \A t \in reset_tokens, p \in GeneratedPasswords :
          LET out == reset_password(t.token, p, FALSE)
          IN  out.res = "UpstreamDeliveryFailure"
              => out.users = users /\ t \in out.reset_tokens

\* C24: check_existing_token returns None, without raising, for every absent
\* or malformed Authorization header (no header, a scheme other than bearer,
\* a value that does not split into exactly scheme and credentials); for a
\* valid bearer token it returns the user, and login and register then
\* reject the request, create no user and issue no token.
C24_OptionalTokenNeverRaises ==
    /\ \A h \in {NoCred, OtherScheme, Unsplit} :
          check_existing_token(h) = [err |-> "None", user |-> NoUser]
    /\ \A h \in Creds :
          (jwt_decode_ok(h) /\ UserByEmail(h.sub) # {})
          => /\ check_existing_token(h).err = "None"
             /\ check_existing_token(h).user \in UserByEmail(h.sub)
             /\ \A e \in Emails, p \in Passwords :
                   /\ login(h, e, p).res = "AlreadyAuthenticated"
                   /\ login(h, e, p).bearer = bearer
                   /\ register_user(h, e, p).res = "AlreadyAuthenticated"
                   /\ StoreOf(register_user(h, e, p)) = store

\* C25: every dish that a restaurant-role actor creates or reads belongs to
\* the restaurant linked to the actor's own profile: create_dish stores the
\* restaurant_id of the actor's profile whatever restaurant_id the body
\* carries, and get_dish_by_id and list_dishes give a dish to the actor only
\* when the dish's restaurant is the one linked to the actor's profile, and
\* answer Forbidden otherwise.
C25_RestaurantActorStaysInOwnRestaurant ==
    \A c \in Creds :
        (Authenticated(c) /\ Actor(c).role = "restaurant")
        => LET own == OwnRestaurantIds(Actor(c).email)
           IN  /\ \A d \in DishCreates :
                     LET out == create_new_dish(c, d)
                     IN  /\ \A n \in out.dishes \ dishes : n.restaurant_id \in own
                         /\ out.res = "Ok" => out.dishes # dishes
               /\ \A i \in 1 .. MaxDishId : \A t \in DishById(i) :
                     IF t.restaurant_id \in own
                     THEN get_dish_by_id(c, i).res = "Ok"
                     ELSE get_dish_by_id(c, i).res = "Forbidden"
               /\ \A e \in Emails :
                     IF e = Actor(c).email
                     THEN get_dishes_by_email(c, e).res = "Ok"
                          => \A t \in dishes_listed(e) : t.restaurant_id \in own
                     ELSE get_dishes_by_email(c, e).res = "Forbidden"

\* a@x, whose restaurant is 2, has created a dish while restaurant 1 exists:
\* the dish is in restaurant 2
C25_Witness ==
    /\ last.op = "create_dish" /\ last.res = "Ok" /\ last.actor = "a@x"
    /\ OwnRestaurantIds("a@x") = {2}
    /\ \E r \in restaurants : r.id = 1
    /\ \E t \in DishById(last.id) : t.restaurant_id = 2

\* C26: one restaurant registration commits its writes in the order User,
\* UserProfile (restaurant_id null), Restaurant, the profile's restaurant_id,
\* photo folder.  So in every reachable state, a crash between any two steps
\* included, a profile exists only if its user exists, a profile's non-null
\* restaurant_id is the id of an existing restaurant, and a folder made by a
\* registration exists only if its restaurant exists; and a registration
\* that failed partway is not retried: to register that email again ends in
\* DuplicateEmail.
C26_RegistrationWriteOrder ==
    /\ \A p \in profiles : UserById(p.user_id) # {}
    /\ \A p \in profiles :
          p.restaurant_id # NoId => \E q \in restaurants : q.id = p.restaurant_id
    /\ \A f \in folders : \E q \in restaurants : q.id = f
    /\ \A r \in ReqIds :
          LET mine == {p \in profiles : p.user_id = reg[r].user_id}
          IN  /\ reg[r].pc \in {"add_restaurant", "link"}
                 => \A p \in mine : p.restaurant_id = NoId
              /\ reg[r].restaurant_id # NoId => mine # {}
              /\ reg[r].restaurant_id \in folders
                 => \A p \in mine : p.restaurant_id = reg[r].restaurant_id
              /\ (reg[r].pc = "crashed" /\ reg[r].user_id # NoId)
                 => /\ register_user(NoCred, reg[r].email, "pw1").res
                          = "DuplicateEmail"
                    /\ StoreOf(register_user(NoCred, reg[r].email, "pw1")) = store

\* a registration crashed after it had stored the user and the profile and
\* before the restaurant; the second request for the email was refused
C26_Witness ==
    /\ reg["r1"].pc = "crashed" /\ reg["r1"].user_id # NoId
    /\ \E p \in profiles : p.user_id = reg["r1"].user_id /\ p.restaurant_id = NoId
    /\ restaurants = {}
    /\ reg["r2"].pc = "done" /\ reg["r2"].res = "DuplicateEmail"
    /\ reg["r2"].email = reg["r1"].email

\* C27: one-time use holds under interleaving.  Of two reset-password
\* requests for one unexpired token that run concurrently at most one
\* succeeds, at most one new password is generated and mailed, and the
\* user's stored hash at the end is the hash of the password that the
\* successful request mailed.
C27_RedeemOnceUnderInterleaving ==
    \A r1 \in ReqIds : \A r2 \in ReqIds \ {r1} :
        (/\ redeeming[r1].pc = "done" /\ redeeming[r2].pc = "done"
         /\ redeeming[r1].reset_token.token # NoId
         /\ redeeming[r1].reset_token.token = redeeming[r2].reset_token.token)
        => /\ ~(redeeming[r1].res = "Ok" /\ redeeming[r2].res = "Ok")
           /\ redeeming[r1].res = "Ok"
              => \A u \in UserById(redeeming[r1].reset_token.user_id) :
                    u.hashed_password =
                        get_password_hash(redeeming[r1].new_password)

\* C28: a user whose approved flag is false cannot obtain a bearer token:
\* every login for an unapproved user fails and issues no token, so that
\* login with the correct password succeeds only after a superuser has
\* approved the email.
C28_UnapprovedCannotLogin ==
    \A e \in Emails, p \in Passwords :
        \A u \in UserByEmail(e) :
            ~u.approved
            => /\ login(NoCred, e, p).res # "Ok"
               /\ login(NoCred, e, p).bearer = bearer

\* C29: a bearer token identifies one user record for its whole lifetime.
\* Every issued token was issued to a stored user; once that user has been
\* deleted (no user has the token's subject), get_current_user fails for
\* the token in every later state, also after a new user has been
\* registered with the same email.  Stated on consecutive states: an issued,
\* unexpired token whose user is gone does not resolve in the next state.
C29_TokenBoundToOneUserRecord ==
    [][\A t \in bearer :
          (jwt_decode_ok(t) /\ UserByEmail(t.sub) = {})
          => get_current_user(t)'.err # "None"]_vars

\* C30: referential integrity holds in every state reached by completed
\* operations (register, create_user, delete_user, create / update / delete
\* of dishes with the superuser's change of restaurant_id, request and
\* redemption of reset tokens): every dish refers to a stored restaurant and
\* a stored category, every profile refers to a stored user and no user has
\* two profiles, and every reset token refers to a stored user.
C30_ReferentialIntegrity ==
    /\ \A d \in dishes :
          /\ \E r \in restaurants : r.id = d.restaurant_id
          /\ d.category_id \in categories
    /\ \A p \in profiles : UserById(p.user_id) # {}
    /\ \A p1 \in profiles, p2 \in profiles : p1.user_id = p2.user_id => p1 = p2
    /\ \A t \in reset_tokens : UserById(t.user_id) # {}

\* a user has been deleted while a dish that the superuser had moved to
\* restaurant 2 and a reset token are stored
C30_Witness ==
    /\ last.op = "delete_user" /\ last.res = "Ok"
    /\ \E d \in dishes : d.name = "stew" /\ d.restaurant_id = 2
    /\ reset_tokens # {}
====
